---------------------------- MODULE Spec2Model ----------------------------
(***************************************************************************)
(* SCARA two-link arm controller (ROBT 1270 Lab07).                        *)
(*                                                                         *)
(* Two programs of the repository are modelled side by side:               *)
(*   "main" : src/main.cpp            (main loops on moveScaraIK)          *)
(*   "part" : src/unnamed/part_000    (menu driven front end)              *)
(*                                                                         *)
(* Numbers.  The programs compute in IEEE doubles.  Here every quantity    *)
(* is a fixed-point integer:                                               *)
(*   lengths handed to the solver    : millimetres                         *)
(*   angles in degrees               : 1/100 degree ("%.2lf" on the wire)  *)
(*   angles in radians, sin and cos  : 1/Scale                             *)
(* so a result agrees with the double computation up to about 0.02 degree. *)
(* scanf is taken to parse a finite number every time it is called.        *)
(***************************************************************************)
EXTENDS Integers, Sequences, FiniteSets, TLC

(***************************************************************************)
(* Program constants (#define block).                                      *)
(***************************************************************************)
Scale == 10^4

L1 == 350
L2 == 250
MAX_ABS_THETA1_DEG == 15000
MAX_ABS_THETA2_DEG == 17000
PI == 31416
LEFT_ARM_SOLUTION == 0
RIGHT_ARM_SOLUTION == 1

\* the literal 0.174532925 (radians) in scaraIK's minimum reach
MIN_ELBOW_RAD == 1745

\* one full turn, the literal 360 of scaraIK's corrections and the 180 of
\* its degree conversion, in 1/100 degree
TURN_DEG == 36000
HALF_TURN_DEG == 18000

(***************************************************************************)
(* Fixed-point arithmetic standing in for double arithmetic and <math.h>.  *)
(***************************************************************************)
Abs(a) == IF a < 0 THEN -a ELSE a

\* a / b rounded to the nearest integer, b > 0
RoundDiv(a, b) == (a + (b \div 2)) \div b

\* product of two values scaled by Scale
MulS(a, b) == RoundDiv(a * b, Scale)

RECURSIVE SqrtSearch(_, _, _)
SqrtSearch(n, lo, hi) ==
    IF lo >= hi THEN lo
    ELSE LET mid == (lo + hi + 1) \div 2
         IN  IF mid * mid <= n THEN SqrtSearch(n, mid, hi)
                               ELSE SqrtSearch(n, lo, mid - 1)

\* sqrt(): the integer part of the square root, n < 2^31
Sqrt(n) == SqrtSearch(n, 0, 46340)

\* an angle in radians brought into [-PI, PI)
WrapRad(r) == ((r + PI) % (2 * PI)) - PI

\* ... and folded into [-PI/2, PI/2], where the sine is the same
FoldRad(r) ==
    LET w == WrapRad(r)
    IN  IF w > PI \div 2 THEN PI - w
        ELSE IF w < -(PI \div 2) THEN -PI - w
        ELSE w

\* the sine series r (1 - r^2/6 (1 - r^2/20 (1 - r^2/42 (1 - r^2/72))))
SinSeries(r) ==
    LET r2 == MulS(r, r)
        t4 == Scale - RoundDiv(r2, 72)
        t3 == Scale - RoundDiv(MulS(r2, t4), 42)
        t2 == Scale - RoundDiv(MulS(r2, t3), 20)
        t1 == Scale - RoundDiv(MulS(r2, t2), 6)
    IN  MulS(r, t1)

Clamp(v) == IF v > Scale THEN Scale ELSE IF v < -Scale THEN -Scale ELSE v

\* sin() and cos() of an angle in radians
Sin(r) == Clamp(SinSeries(FoldRad(r)))
Cos(r) == Sin(r + (PI \div 2))

RECURSIVE AcosSearch(_, _, _)
AcosSearch(c, lo, hi) ==
    IF lo >= hi THEN lo
    ELSE LET mid == (lo + hi) \div 2
         IN  IF Cos(mid) <= c THEN AcosSearch(c, lo, mid)
                              ELSE AcosSearch(c, mid + 1, hi)

\* acos(): the angle in [0, PI] whose cosine is c
Acos(c) == AcosSearch(c, 0, PI)

RECURSIVE AtanSearch(_, _, _, _)
AtanSearch(b, a, lo, hi) ==
    IF lo >= hi THEN lo
    ELSE LET mid == (lo + hi) \div 2
         IN  IF b * Cos(mid) - a * Sin(mid) <= 0
             THEN AtanSearch(b, a, lo, mid)
             ELSE AtanSearch(b, a, mid + 1, hi)

\* atan2(y, x): the bearing of (x, y) in (-PI, PI], |x|, |y| < 10^5
Atan2(y, x) ==
    IF x = 0 /\ y = 0 THEN 0
    ELSE IF x >= 0 /\ y >= 0 THEN AtanSearch(y, x, 0, PI \div 2)
    ELSE IF x < 0 /\ y >= 0 THEN PI - AtanSearch(y, -x, 0, PI \div 2)
    ELSE IF x < 0 THEN AtanSearch(-y, -x, 0, PI \div 2) - PI
    ELSE -AtanSearch(-y, x, 0, PI \div 2)

\* "*= PI/180.0": 1/100 degree to radians
ToRad(d) == RoundDiv(d * PI, HALF_TURN_DEG)

\* "*= 180/PI": radians to 1/100 degree
ToDeg(r) == RoundDiv(r * HALF_TURN_DEG, PI)

\* scaraFK with its two checks in the other order (mutant)
scaraFKJ2First(j1, j2) ==
    IF Abs(j2) > MAX_ABS_THETA2_DEG THEN [ret |-> -2, wrote |-> FALSE, x |-> 0, y |-> 0]
    ELSE IF Abs(j1) > MAX_ABS_THETA1_DEG THEN [ret |-> -1, wrote |-> FALSE, x |-> 0, y |-> 0]
    ELSE [ret |-> 0, wrote |-> TRUE,
          x |-> L1 * Cos(ToRad(j1)) + L2 * Cos(ToRad(j1) + ToRad(j2)),
          y |-> L1 * Sin(ToRad(j1)) + L2 * Sin(ToRad(j1) + ToRad(j2))]

(***************************************************************************)
(* scaraFK: joint angles to tool position.  x and y are in mm/Scale.       *)
(* wrote says whether *_x and *_y were assigned.                           *)
(***************************************************************************)
scaraFK(j1, j2) ==
    IF Abs(j1) > MAX_ABS_THETA1_DEG THEN [ret |-> -1, wrote |-> FALSE, x |-> 0, y |-> 0]
    ELSE IF Abs(j2) > MAX_ABS_THETA2_DEG THEN [ret |-> -2, wrote |-> FALSE, x |-> 0, y |-> 0]
    ELSE LET r1 == ToRad(j1)
             r2 == ToRad(j2)
         IN  [ret |-> 0, wrote |-> TRUE,
              x |-> L1 * Cos(r1) + L2 * Cos(r1 + r2),
              y |-> L1 * Sin(r1) + L2 * Sin(r1 + r2)]

(***************************************************************************)
(* scaraIK: tool position to joint angles.                                 *)
(***************************************************************************)
\* L, in 1/50 mm
Reach(x, y) == Sqrt(2500 * (x * x + y * y))

\* Min, in 1/50 mm
MinReach ==
    Sqrt(2500 * ((L1 * L1 + L2 * L2) - RoundDiv(2 * L1 * L2 * Cos(MIN_ELBOW_RAD), Scale)))

\* the reach check written with >= (mutant)
TooFarInclusive(x, y) == x * x + y * y >= (L1 + L2) * (L1 + L2)

\* "if ( L > L1 + L2 ) return -1;" decided on the exact squares
TooFar(x, y) == x * x + y * y > (L1 + L2) * (L1 + L2)

\* the test made against L1 - L2, the minimum the messages print (mutant)
TooCloseInnerRadius(x, y) == Reach(x, y) < 50 * (L1 - L2)

\* "if ( L < Min ) return -2;"
TooClose(x, y) == Reach(x, y) < MinReach

\* beta = atan2(_y,_x)
Beta(x, y) == Atan2(y, x)

\* alpha = acos((L2^2 - L^2 - L1^2) / (-2 L L1)); numerator and denominator
\* are both divided by 100 to stay below 2^31
Alpha(x, y) ==
    Acos(RoundDiv((L1 * L1 + x * x + y * y - L2 * L2) * ((Scale * 50) \div 100),
                  ((2 * L1) \div 100) * Reach(x, y)))

\* main.cpp: sign = (arm == LEFT_ARM_SOLUTION) ? -1.0 : 1.0
ElbowSignMain(arm) == IF arm = LEFT_ARM_SOLUTION THEN -1 ELSE 1

\* part_000: arm == RIGHT_ARM_SOLUTION ? alpha : -alpha
ElbowSignPart(arm) == IF arm = RIGHT_ARM_SOLUTION THEN 1 ELSE -1

\* the direction of the second link taken for *_j2, "- *_j1" left out (mutant)
ElbowAbsolute(x, y, j1r) ==
    Atan2(RoundDiv(y * Scale - L1 * Sin(j1r), 100),
          RoundDiv(x * Scale - L1 * Cos(j1r), 100))

\* *_j2 = atan2(_y - L1 sin(*_j1), _x - L1 cos(*_j1)) - *_j1, radians
Elbow(x, y, j1r) ==
    Atan2(RoundDiv(y * Scale - L1 * Sin(j1r), 100),
          RoundDiv(x * Scale - L1 * Cos(j1r), 100)) - j1r

\* the corrections without the "+= 360" line (mutant)
Correct360DownOnly(a, limit) == IF a > limit THEN a - TURN_DEG ELSE a

\* "if (a < -limit) a += 360; if (a > limit) a -= 360;", one after the other
Correct360(a, limit) ==
    LET up == IF a < -limit THEN a + TURN_DEG ELSE a
    IN  IF up > limit THEN up - TURN_DEG ELSE up

\* the closing checks without the one on joint 1 (mutant)
LimitCheckJ2Only(j1, j2) == IF Abs(j2) > MAX_ABS_THETA2_DEG THEN -1 ELSE 0

\* the two closing checks, both answering -1
LimitCheck(j1, j2) ==
    IF Abs(j1) > MAX_ABS_THETA1_DEG THEN -1
    ELSE IF Abs(j2) > MAX_ABS_THETA2_DEG THEN -1
    ELSE 0

\* the solver after the elbow sign is chosen.  wrote says whether *_j1 and
\* *_j2 were assigned: they are on every path past the two reach checks.
SolveIK(x, y, sign) ==
    IF TooFar(x, y) THEN [ret |-> -1, wrote |-> FALSE, j1 |-> 0, j2 |-> 0]
    ELSE IF TooClose(x, y) THEN [ret |-> -2, wrote |-> FALSE, j1 |-> 0, j2 |-> 0]
    ELSE LET j1r == Beta(x, y) + sign * Alpha(x, y)
             j2r == Elbow(x, y, j1r)
             j2  == Correct360(ToDeg(j2r), MAX_ABS_THETA2_DEG)
             j1  == Correct360(ToDeg(j1r), MAX_ABS_THETA1_DEG)
         IN  [ret |-> LimitCheck(j1, j2), wrote |-> TRUE, j1 |-> j1, j2 |-> j2]

scaraIKMain(x, y, arm) == SolveIK(x, y, ElbowSignMain(arm))
scaraIKPart(x, y, arm) == SolveIK(x, y, ElbowSignPart(arm))

(***************************************************************************)
(* The operator's inputs and the length of a session.                      *)
(***************************************************************************)
\* commands a session may send before the exploration stops
MaxSent == 6

\* targets typed at "Input a set of coordinates (X, Y)", in mm
Targets ==
    { <<600, 0>>, <<700, 0>>, <<100, 0>>, <<0, 500>>, <<300, 400>>,
      <<-400, -300>>, <<-300, 400>>, <<-500, 0>> }

\* angles typed at "Input 2 angles in degrees (J1, J2)", in 1/100 degree
Poses ==
    { <<15100, 0>>, <<0, 17100>>, <<15100, 17100>>, <<-15001, 0>>,
      <<0, 9000>>, <<15000, -17000>>, <<4500, -9000>> }

\* characters typed at "Select arm pose (L/R)" and at "Draw line? (Y/N)"
PoseChars == {"L", "l", "R", "r", "x"}
PenChars == {"y", "Y", "n"}

\* numbers typed at "Enter your choice (1-5)"
Choices == 0..6

\* the values ever passed as scaraIK's arm: LEFT, RIGHT and main.cpp's -ArmType
ArmArgs == {-1, 0, 1}

\* the solvers on the inputs above, computed once
FKOf == [p \in Poses |-> scaraFK(p[1], p[2])]
IKMainOf == [t \in Targets, arm \in ArmArgs |-> scaraIKMain(t[1], t[2], arm)]
IKPartOf == [t \in Targets, arm \in ArmArgs |-> scaraIKPart(t[1], t[2], arm)]

\* a local double or int that has not been assigned (or whose function has
\* returned), and a local char in the same condition
Uninit == -(10^9)
NoChar == "?"

\* no solver call is under test
NoCall == [fn |-> "none"]

(***************************************************************************)
(* State.                                                                  *)
(*   prog     which of the two programs runs                               *)
(*   pc       where the program waits for input                            *)
(*   ArmType  the global bool ArmType                                      *)
(*   sent     every line handed to robot.Send, in order                    *)
(*   pen      promptPen's local char, kept as the operator's last answer   *)
(*   unit     a single call of scaraFK or scaraIK with its arguments and   *)
(*            result (used by SpecFK and SpecIK only)                      *)
(*   the rest are the locals of moveScaraFK and moveScaraIK                *)
(***************************************************************************)
VARIABLES prog, pc, ArmType, sent, pen, unit,
          X, Y, J1, J2, error, pose,
          error_left, error_right, J1_left, J2_left, J1_right, J2_right

vars == <<prog, pc, ArmType, sent, pen, unit, X, Y, J1, J2, error, pose,
          error_left, error_right, J1_left, J2_left, J1_right, J2_right>>

locals == <<X, Y, J1, J2, error, pose,
            error_left, error_right, J1_left, J2_left, J1_right, J2_right>>

\* what no action of a session changes
fixed == <<prog, unit>>

\* robot.Send(line): the command sink takes the line
Send(log, line) == Append(log, line)

\* sprintf(commandString, "ROTATE_JOINT ANG1 %.2lf ANG2 %.2lf\n", J1, J2)
EncodeMove(j1, j2) == <<"ROTATE_JOINT", j1, j2>>

\* promptPen's robot.Send(pen=='y' || pen == 'Y' ? "PEN_DOWN\n" : "PEN_UP\n")
PenCommand(c) == IF c = "y" \/ c = "Y" THEN <<"PEN_DOWN">> ELSE <<"PEN_UP">>

\* a move that forgets the closing robot.Send("PEN_UP\n") (mutant)
SendMoveNoPenUp(log, c, j1, j2) ==
    Send(Send(log, PenCommand(c)), EncodeMove(j1, j2))

\* promptPen(); sprintf; robot.Send(commandString); robot.Send("PEN_UP\n")
SendMove(log, c, j1, j2) ==
    Send(Send(Send(log, PenCommand(c)), EncodeMove(j1, j2)), <<"PEN_UP">>)

\* no function of the program is executing: its locals are gone
NoFrame ==
    /\ X' = Uninit /\ Y' = Uninit /\ J1' = Uninit /\ J2' = Uninit
    /\ pose' = NoChar
    /\ error' = Uninit /\ error_left' = Uninit /\ error_right' = Uninit
    /\ J1_left' = Uninit /\ J2_left' = Uninit
    /\ J1_right' = Uninit /\ J2_right' = Uninit

\* moveScaraFK and main.cpp's moveScaraIK declare their locals unassigned
EnterUnassigned == NoFrame

\* part_000's moveScaraIK: "double J1 = 0, J2 = 0, X = 0, Y = 0; ..."
EnterIKPart ==
    /\ X' = 0 /\ Y' = 0 /\ J1' = 0 /\ J2' = 0
    /\ pose' = NoChar
    /\ error' = Uninit /\ error_left' = 0 /\ error_right' = 0
    /\ J1_left' = 0 /\ J2_left' = 0 /\ J1_right' = 0 /\ J2_right' = 0

NoSession ==
    /\ ArmType = LEFT_ARM_SOLUTION
    /\ sent = <<>>
    /\ pen = NoChar /\ pose = NoChar
    /\ X = Uninit /\ Y = Uninit /\ J1 = Uninit /\ J2 = Uninit
    /\ error = Uninit /\ error_left = Uninit /\ error_right = Uninit
    /\ J1_left = Uninit /\ J2_left = Uninit
    /\ J1_right = Uninit /\ J2_right = Uninit

Init ==
    /\ prog \in {"main", "part"}
    /\ pc = "init"
    /\ unit = NoCall
    /\ NoSession

(***************************************************************************)
(* main                                                                    *)
(***************************************************************************)
\* robot.Initialize() answers false: the program ends
InitializeFails ==
    /\ pc = "init"
    /\ pc' = "exit"
    /\ UNCHANGED <<fixed, ArmType, sent, pen, locals>>

\* robot.Initialize() answers true: main.cpp calls moveScaraIK at once,
\* part_000 shows its menu
InitializeOk ==
    /\ pc = "init"
    /\ pc' = IF prog = "main" THEN "ik_in" ELSE "menu"
    /\ UNCHANGED <<fixed, ArmType, sent, pen, locals>>

\* case 1: moveScaraFK()
MenuFK ==
    /\ pc = "menu" /\ Len(sent) + 3 <= MaxSent
    /\ pc' = "fk_in"
    /\ EnterUnassigned
    /\ UNCHANGED <<fixed, ArmType, sent, pen>>

\* case 2: moveScaraIK()
MenuIK ==
    /\ pc = "menu" /\ Len(sent) + 3 <= MaxSent
    /\ pc' = "ik_in"
    /\ EnterIKPart
    /\ UNCHANGED <<fixed, ArmType, sent, pen>>

\* case 3: robot.Send("CLEAR_TRACE\n")
MenuClearTrace ==
    /\ pc = "menu" /\ Len(sent) < MaxSent
    /\ sent' = Send(sent, <<"CLEAR_TRACE">>)
    /\ UNCHANGED <<fixed, pc, ArmType, pen, locals>>

\* case 4: robot.Send("HOME\n")
MenuHome ==
    /\ pc = "menu" /\ Len(sent) < MaxSent
    /\ sent' = Send(sent, <<"HOME">>)
    /\ UNCHANGED <<fixed, pc, ArmType, pen, locals>>

\* case 5 without its "return 0": END is sent and the menu comes again (mutant)
MenuExitNoReturn ==
    /\ pc = "menu" /\ Len(sent) < MaxSent
    /\ sent' = Send(sent, <<"END">>)
    /\ UNCHANGED <<fixed, pc, ArmType, pen, locals>>

\* case 5: robot.Send("END\n"); robot.Close(); return 0
MenuExit ==
    /\ pc = "menu" /\ Len(sent) < MaxSent
    /\ sent' = Send(sent, <<"END">>)
    /\ pc' = "exit"
    /\ UNCHANGED <<fixed, ArmType, pen, locals>>

\* default: "Invalid choice!", back to the menu
MenuInvalid ==
    /\ pc = "menu"
    /\ \E choice \in Choices \ (1..5) : UNCHANGED vars

(***************************************************************************)
(* moveScaraFK (the same text in both programs; main.cpp never calls it)   *)
(***************************************************************************)
\* one turn of "do { scanf; error = scaraFK(...); switch ... } while (error)"
FKInput ==
    /\ pc = "fk_in"
    /\ \E p \in Poses :
        LET r == FKOf[p]
        IN  /\ J1' = p[1] /\ J2' = p[2]
            /\ error' = r.ret
            /\ X' = IF r.wrote THEN r.x ELSE X
            /\ Y' = IF r.wrote THEN r.y ELSE Y
            /\ pc' = IF r.ret # 0 THEN "fk_in" ELSE "fk_pen"
    /\ UNCHANGED <<fixed, ArmType, sent, pen, pose,
                   error_left, error_right, J1_left, J2_left, J1_right, J2_right>>

\* a moveScaraFK that puts ArmType back to LEFT when it ends (mutant)
FKPenResetsArm ==
    /\ pc = "fk_pen"
    /\ \E c \in PenChars : pen' = c /\ sent' = SendMove(sent, c, J1, J2)
    /\ pc' = "menu"
    /\ NoFrame
    /\ ArmType' = LEFT_ARM_SOLUTION
    /\ UNCHANGED fixed

\* promptPen and the three sends that end moveScaraFK
FKPen ==
    /\ pc = "fk_pen"
    /\ \E c \in PenChars : pen' = c /\ sent' = SendMove(sent, c, J1, J2)
    /\ pc' = "menu"
    /\ NoFrame
    /\ UNCHANGED <<fixed, ArmType>>

(***************************************************************************)
(* moveScaraIK of part_000                                                 *)
(***************************************************************************)
\* what an assignment through the pointer leaves in the caller's variable
Written(r, new, old) == IF r.wrote THEN new ELSE old

\* "if (error_left && error_right)": no configuration is valid
BothFail(el, er) == el # 0 /\ er # 0

\* the test mistyped as "!error_left && error_right" (mutant)
BothValidMistyped(el, er) == el = 0 /\ er # 0

\* "if (!error_left && !error_right)": the operator has to choose
BothValid(el, er) == el = 0 /\ er = 0

\* one turn of the coordinate loop: scanf, both solver calls, and the
\* branch taken on their results
IKInputPart ==
    /\ prog = "part" /\ pc = "ik_in"
    /\ \E t \in Targets :
        LET l == IKPartOf[t, LEFT_ARM_SOLUTION]
            r == IKPartOf[t, RIGHT_ARM_SOLUTION]
        IN  /\ X' = t[1] /\ Y' = t[2]
            /\ error_left' = l.ret
            /\ error_right' = r.ret
            /\ J1_left' = Written(l, l.j1, J1_left)
            /\ J2_left' = Written(l, l.j2, J2_left)
            /\ J1_right' = Written(r, r.j1, J1_right)
            /\ J2_right' = Written(r, r.j2, J2_right)
            /\ IF BothFail(l.ret, r.ret)
               THEN pc' = "ik_in" /\ UNCHANGED <<J1, J2, ArmType>>
               ELSE IF BothValid(l.ret, r.ret)
               THEN pc' = "ik_pose" /\ UNCHANGED <<J1, J2, ArmType>>
               ELSE IF l.ret = 0
               THEN /\ J1' = J1_left' /\ J2' = J2_left'
                    /\ ArmType' = LEFT_ARM_SOLUTION
                    /\ pc' = "ik_pen"
               ELSE /\ J1' = J1_right' /\ J2' = J2_right'
                    /\ ArmType' = RIGHT_ARM_SOLUTION
                    /\ pc' = "ik_pen"
    /\ UNCHANGED <<fixed, sent, pen, pose, error>>

\* one turn of "do { scanf_s("%c", &pose, 1); ... } while (!valid_choice)"
PoseInputPart ==
    /\ prog = "part" /\ pc = "ik_pose"
    /\ \E c \in PoseChars :
        /\ pose' = c
        /\ IF c = "L" \/ c = "l"
           THEN /\ J1' = J1_left /\ J2' = J2_left
                /\ ArmType' = LEFT_ARM_SOLUTION
                /\ pc' = "ik_pen"
           ELSE IF c = "R" \/ c = "r"
           THEN /\ J1' = J1_right /\ J2' = J2_right
                /\ ArmType' = RIGHT_ARM_SOLUTION
                /\ pc' = "ik_pen"
           ELSE UNCHANGED <<J1, J2, ArmType, pc>>
    /\ UNCHANGED <<fixed, sent, pen, X, Y, error,
                   error_left, error_right, J1_left, J2_left, J1_right, J2_right>>

(***************************************************************************)
(* moveScaraIK of main.cpp                                                 *)
(***************************************************************************)
\* "int RL = 0;" and never assigned again
RL == 0

\* the switch without its "case (-1)" (mutant)
RejectedOnlyTooClose(err) == err = -2

\* "case (-1): ... continue; case (-2): ... continue;" then "while (error)"
Rejected(err) == err = -1 \/ err = -2

\* one turn of the coordinate loop: scanf, scaraIK with ArmType, and with
\* -ArmType when that failed
IKInputMain ==
    /\ prog = "main" /\ pc = "ik_in" /\ Len(sent) + 3 <= MaxSent
    /\ \E t \in Targets :
        LET first  == IKMainOf[t, ArmType]
            second == IKMainOf[t, -ArmType]
            err    == IF first.ret # 0 THEN second.ret ELSE first.ret
            a1     == Written(first, first.j1, J1)
            a2     == Written(first, first.j2, J2)
        IN  /\ X' = t[1] /\ Y' = t[2]
            /\ error' = err
            /\ J1' = IF first.ret # 0 THEN Written(second, second.j1, a1) ELSE a1
            /\ J2' = IF first.ret # 0 THEN Written(second, second.j2, a2) ELSE a2
            /\ pc' = IF Rejected(err) THEN "ik_in"
                     ELSE IF RL = 0 THEN "ik_pose"
                     ELSE IF err # 0 THEN "ik_in" ELSE "ik_pen"
    /\ UNCHANGED <<fixed, ArmType, sent, pen, pose,
                   error_left, error_right, J1_left, J2_left, J1_right, J2_right>>

\* one turn of "do { scanf_s("%c",&pose,1); ... } while (!_pose)": the
\* result of the scaraIK call made for the chosen pose is dropped
PoseInputMain ==
    /\ prog = "main" /\ pc = "ik_pose"
    /\ \E c \in PoseChars :
        LET chosen == IF c = "R" \/ c = "r" THEN RIGHT_ARM_SOLUTION
                      ELSE LEFT_ARM_SOLUTION
            r == IKMainOf[<<X, Y>>, chosen]
        IN  /\ pose' = c
            /\ IF c \in {"R", "r", "L", "l"}
               THEN /\ ArmType' = chosen
                    /\ J1' = Written(r, r.j1, J1)
                    /\ J2' = Written(r, r.j2, J2)
                    /\ pc' = IF error # 0 THEN "ik_in" ELSE "ik_pen"
               ELSE UNCHANGED <<ArmType, J1, J2, pc>>
    /\ UNCHANGED <<fixed, sent, pen, X, Y, error,
                   error_left, error_right, J1_left, J2_left, J1_right, J2_right>>

\* promptPen and the three sends that end moveScaraIK.  part_000 returns to
\* the menu; main.cpp's "while (1)" calls moveScaraIK again.
IKPen ==
    /\ pc = "ik_pen"
    /\ \E c \in PenChars : pen' = c /\ sent' = SendMove(sent, c, J1, J2)
    /\ pc' = IF prog = "main" THEN "ik_in" ELSE "menu"
    /\ IF prog = "main" THEN EnterUnassigned ELSE NoFrame
    /\ UNCHANGED <<fixed, ArmType>>

(***************************************************************************)
(* What a rejected input prints.  A report is the constraint the message   *)
(* names and the bounds printed with it (lengths in mm, angles in 1/100    *)
(* degree).                                                                *)
(***************************************************************************)
\* moveScaraFK: "J1 is out of bounds!" / "J2 is out of bounds!" and the range
ReportFK(err) ==
    IF err = -1 THEN [names |-> "joint1", limit |-> MAX_ABS_THETA1_DEG]
    ELSE IF err = -2 THEN [names |-> "joint2", limit |-> MAX_ABS_THETA2_DEG]
    ELSE [names |-> "nothing"]

\* main.cpp's switch: "coordinates exceed maximum range!" for -1 and
\* "coordinates exceed minimum range!" for -2, each followed by
\* printf("Max range: %.2lf mm\nMin range: %.2lf mm", L1+L2, L1-L2)
ReportIKMain(err) ==
    IF err = -1 THEN [names |-> "max_reach", max |-> L1 + L2, min |-> L1 - L2]
    ELSE IF err = -2 THEN [names |-> "min_reach", max |-> L1 + L2, min |-> L1 - L2]
    ELSE [names |-> "nothing"]

\* part_000: "Coordinates are out of reach for both arm configurations!"
\* with "Max range" L1+L2 and "Min range" L1-L2
ReportIKPart(el, er) ==
    IF BothFail(el, er) THEN [names |-> "reach", max |-> L1 + L2, min |-> L1 - L2]
    ELSE [names |-> "nothing"]

Next ==
    \/ InitializeFails
    \/ InitializeOk
    \/ MenuFK
    \/ MenuIK
    \/ MenuClearTrace
    \/ MenuHome
    \/ MenuExit
    \/ MenuInvalid
    \/ FKInput
    \/ FKPen
    \/ IKInputPart
    \/ PoseInputPart
    \/ IKInputMain
    \/ PoseInputMain
    \/ IKPen

Spec == Init /\ [][Next]_vars

(***************************************************************************)
(* The solvers called on their own.                                        *)
(***************************************************************************)
\* half the width of the square of targets tried, in steps of GridStep mm
GridN == 7
Grid == {100 * k : k \in -GridN..GridN}

\* angles tried, in 1/100 degree: each limit, the values next to it on
\* both sides, and the examples of the joint-limit rejection
LimitBand == 2
Near(limit) == {limit + d : d \in -LimitBand..LimitBand}
Angles ==
    LET pos == Near(MAX_ABS_THETA1_DEG) \cup Near(MAX_ABS_THETA2_DEG)
                 \cup {0, 4500, 9000, 15100, 17100}
    IN  pos \cup {-a : a \in pos}

InitFK ==
    /\ prog = "part" /\ pc = "unit"
    /\ NoSession
    /\ unit \in [fn : {"scaraFK"}, j1 : Angles, j2 : Angles, done : {FALSE},
                  res : {scaraFK(0, 0)}]

\* error = scaraFK(J1, J2, &X, &Y)
CallFK ==
    /\ unit.fn = "scaraFK" /\ ~unit.done
    /\ unit' = [unit EXCEPT !.done = TRUE, !.res = scaraFK(unit.j1, unit.j2)]
    /\ UNCHANGED <<prog, pc, ArmType, sent, pen, locals>>

SpecFK == InitFK /\ [][CallFK]_vars

InitIK ==
    /\ prog = "part" /\ pc = "unit"
    /\ NoSession
    /\ unit \in [fn : {"scaraIK"}, x : Grid, y : Grid, arm : ArmArgs,
                  done : {FALSE}, main : {SolveIK(0, 0, 1)}, part : {SolveIK(0, 0, 1)}]

\* scaraIK(X, Y, &J1, &J2, arm), as main.cpp and as part_000 define it
CallIK ==
    /\ unit.fn = "scaraIK" /\ ~unit.done
    /\ unit' = [unit EXCEPT !.done = TRUE,
                            !.main = scaraIKMain(unit.x, unit.y, unit.arm),
                            !.part = scaraIKPart(unit.x, unit.y, unit.arm)]
    /\ UNCHANGED <<prog, pc, ArmType, sent, pen, locals>>

SpecIK == InitIK /\ [][CallIK]_vars

\* scaraFK has not been called
NotCalled == [ret |-> Uninit, wrote |-> FALSE, x |-> 0, y |-> 0]

\* error = scaraFK(J1, J2, &X, &Y) on the angles a successful scaraIK wrote
FKOfResult ==
    /\ unit.fn = "scaraIK" /\ unit.done
    /\ unit.main.ret = 0 \/ unit.part.ret = 0
    /\ unit' = [fn |-> "roundtrip", x |-> unit.x, y |-> unit.y, arm |-> unit.arm,
                ik_main |-> unit.main, ik_part |-> unit.part,
                fk_main |-> IF unit.main.ret = 0
                            THEN scaraFK(unit.main.j1, unit.main.j2) ELSE NotCalled,
                fk_part |-> IF unit.part.ret = 0
                            THEN scaraFK(unit.part.j1, unit.part.j2) ELSE NotCalled]
    /\ UNCHANGED <<prog, pc, ArmType, sent, pen, locals>>

NextRT == CallIK \/ FKOfResult

SpecRT == InitIK /\ [][NextRT]_vars

\* the raw angles scaraIK can hold before its corrections, in 1/100 degree:
\* j1 = beta +- alpha with |beta| <= 180 and 0 <= alpha <= 180, and
\* j2 = atan2(...) - j1.  Every whole degree of the range is tried, with
\* the values 0.01 degree on each side of it.
RawJ1Max == TURN_DEG
RawJ2Max == HALF_TURN_DEG + TURN_DEG
RawAngles(max) ==
    {a \in {100 * d + e : d \in -(max \div 100)..(max \div 100), e \in {-1, 0, 1}} :
        Abs(a) <= max}

InitWrap ==
    /\ prog = "part" /\ pc = "unit"
    /\ NoSession
    /\ \E j \in {1, 2} :
        \E a \in RawAngles(IF j = 1 THEN RawJ1Max ELSE RawJ2Max) :
            unit = [fn |-> "correct", joint |-> j, raw |-> a, done |-> FALSE,
                    out |-> a, ret |-> 0]

\* the closing lines of scaraIK applied to the raw angle of one joint, the
\* other joint being at 0: the two corrections, then the two checks
CorrectAndCheck ==
    /\ unit.fn = "correct" /\ ~unit.done
    /\ LET limit == IF unit.joint = 1 THEN MAX_ABS_THETA1_DEG ELSE MAX_ABS_THETA2_DEG
           out == Correct360(unit.raw, limit)
       IN  unit' = [unit EXCEPT !.done = TRUE, !.out = out,
                                !.ret = IF unit.joint = 1 THEN LimitCheck(out, 0)
                                                          ELSE LimitCheck(0, out)]
    /\ UNCHANGED <<prog, pc, ArmType, sent, pen, locals>>

SpecWrap == InitWrap /\ [][CorrectAndCheck]_vars

\* targets around the minimum reach: the origin, and on each half axis the
\* whole millimetres from MinBand below Min to MinBand above it
MinBand == 5
MinFloor == MinReach \div 50
AroundMin ==
    LET ds == (MinFloor - MinBand + 1)..(MinFloor + MinBand)
    IN  {<<0, 0>>} \cup {<<d, 0>> : d \in ds} \cup {<<-d, 0>> : d \in ds}
                   \cup {<<0, d>> : d \in ds} \cup {<<0, -d>> : d \in ds}

InitMin ==
    /\ prog = "part" /\ pc = "unit"
    /\ NoSession
    /\ \E t \in AroundMin, a \in ArmArgs :
          unit = [fn |-> "scaraIK", x |-> t[1], y |-> t[2], arm |-> a,
                  done |-> FALSE, main |-> SolveIK(0, 0, 1), part |-> SolveIK(0, 0, 1)]

SpecMin == InitMin /\ [][CallIK]_vars

(***************************************************************************)
(* Properties.                                                             *)
(***************************************************************************)
WithinLimits(j1, j2) ==
    Abs(j1) <= MAX_ABS_THETA1_DEG /\ Abs(j2) <= MAX_ABS_THETA2_DEG

\* scaraIK of the running program on a target of Targets
IKOf(t, arm) == IF prog = "main" THEN IKMainOf[t, arm] ELSE IKPartOf[t, arm]
Valid(t, arm) == IKOf(t, arm).ret = 0
Angles2(t, arm) == <<IKOf(t, arm).j1, IKOf(t, arm).j2>>

ExactlyOneValid(t) == Valid(t, LEFT_ARM_SOLUTION) # Valid(t, RIGHT_ARM_SOLUTION)
TheValid(t) ==
    IF Valid(t, LEFT_ARM_SOLUTION) THEN LEFT_ARM_SOLUTION ELSE RIGHT_ARM_SOLUTION
BothValidAt(t) == Valid(t, LEFT_ARM_SOLUTION) /\ Valid(t, RIGHT_ARM_SOLUTION)
NoneValid(t) == ~Valid(t, LEFT_ARM_SOLUTION) /\ ~Valid(t, RIGHT_ARM_SOLUTION)

\* the target of the current request, once it has been read
Target == <<X, Y>>
TargetRead == Target \in Targets

IsRotate(line) == line[1] = "ROTATE_JOINT"
Rotations(log) == Cardinality({i \in 1..Len(log) : IsRotate(log[i])})
PenLines(log) == {i \in 1..Len(log) : log[i][1] \in {"PEN_UP", "PEN_DOWN"}}
PenIsUp(log) ==
    \/ PenLines(log) = {}
    \/ log[CHOOSE i \in PenLines(log) : \A k \in PenLines(log) : k <= i][1] = "PEN_UP"

IKCallDone == unit.fn = "scaraIK" /\ unit.done
FKCallDone == unit.fn = "scaraFK" /\ unit.done
IsConfiguration(arm) == arm \in {LEFT_ARM_SOLUTION, RIGHT_ARM_SOLUTION}

\* C1 (as claimed): every ROTATE_JOINT handed to the command sink carries
\* angles within the joint limits, |j1| <= 150 and |j2| <= 170.
C1_SentWithinLimits ==
    \A i \in 1..Len(sent) :
        IsRotate(sent[i]) => WithinLimits(sent[i][2], sent[i][3])

\* C2: whenever scaraIK answers 0, for any target and any arm argument, the
\* angles it wrote satisfy |j1| <= 150 and |j2| <= 170 (both programs).
C2_IKSuccessWithinLimits ==
    IKCallDone =>
        /\ unit.main.ret = 0 => WithinLimits(unit.main.j1, unit.main.j2)
        /\ unit.part.ret = 0 => WithinLimits(unit.part.j1, unit.part.j2)

\* C2 witness: (-200, 0) with the LEFT elbow succeeds, and only because the
\* raw j2 of about -214 degrees was corrected by +360.
C2_Witness ==
    /\ IKCallDone
    /\ unit.x = -200 /\ unit.y = 0 /\ unit.arm = LEFT_ARM_SOLUTION
    /\ unit.main.ret = 0 /\ unit.part.ret = 0
    /\ unit.part.j2 > 14000

C4_BoundaryRejected ==
    IKCallDone /\ IsConfiguration(unit.arm)
      /\ unit.x * unit.x + unit.y * unit.y >= (L1 + L2) * (L1 + L2)
    => unit.main.ret = -1 /\ unit.part.ret = -1

\* C4 (amended): scaraIK rejects with -1, writing nothing, every target at
\* distance L > L1 + L2; the boundary L = L1 + L2 is accepted: (600, 0)
\* answers 0 with the arm stretched out, j1 = j2 = 0, for both configurations.
C4_BoundaryAccepted ==
    IKCallDone /\ IsConfiguration(unit.arm) =>
        /\ unit.x * unit.x + unit.y * unit.y > (L1 + L2) * (L1 + L2)
              => /\ unit.main.ret = -1 /\ ~unit.main.wrote
                 /\ unit.part.ret = -1 /\ ~unit.part.wrote
        /\ unit.x = L1 + L2 /\ unit.y = 0
              => /\ unit.main = [ret |-> 0, wrote |-> TRUE, j1 |-> 0, j2 |-> 0]
                 /\ unit.part = [ret |-> 0, wrote |-> TRUE, j1 |-> 0, j2 |-> 0]

\* C4 witness: the call on the boundary target has returned success.
C4_Witness ==
    /\ IKCallDone /\ IsConfiguration(unit.arm)
    /\ unit.x = 600 /\ unit.y = 0
    /\ unit.main.ret = 0 /\ unit.part.ret = 0

\* C5 (as claimed): when exactly one of scaraIK(LEFT), scaraIK(RIGHT)
\* succeeds for the entered target, moveScaraIK goes on to the pen prompt
\* without asking for the pose, with ArmType set to that configuration and
\* J1, J2 (the angles it will send) those of that configuration.
C5_SingleValidAutoSelected ==
    pc \in {"ik_in", "ik_pose", "ik_pen"} /\ TargetRead /\ ExactlyOneValid(Target)
    => /\ pc = "ik_pen"
       /\ ArmType = TheValid(Target)
       /\ <<J1, J2>> = Angles2(Target, TheValid(Target))

\* C6: when both configurations succeed, nothing is picked silently: the
\* coordinate step leaves ArmType and the sink alone and asks for the pose;
\* at the pose prompt L/l commits LEFT and R/r commits RIGHT (ArmType and
\* J1, J2 of exactly that configuration), anything else asks again with
\* ArmType and the sink unchanged; and the ROTATE_JOINT then sent carries the
\* angles of the configuration ArmType names.
C6_NoSilentPick ==
    [][ /\ pc = "ik_in" /\ <<X', Y'>> \in Targets /\ BothValidAt(<<X', Y'>>)
           => pc' = "ik_pose" /\ ArmType' = ArmType /\ sent' = sent
        /\ pc = "ik_pose" /\ BothValidAt(Target)
           => /\ sent' = sent
              /\ pose' \in {"L", "l"}
                    => /\ pc' = "ik_pen" /\ ArmType' = LEFT_ARM_SOLUTION
                       /\ <<J1', J2'>> = Angles2(Target, LEFT_ARM_SOLUTION)
              /\ pose' \in {"R", "r"}
                    => /\ pc' = "ik_pen" /\ ArmType' = RIGHT_ARM_SOLUTION
                       /\ <<J1', J2'>> = Angles2(Target, RIGHT_ARM_SOLUTION)
              /\ pose' \notin {"L", "l", "R", "r"}
                    => pc' = "ik_pose" /\ ArmType' = ArmType
        /\ pc = "ik_pen" /\ BothValidAt(Target)
           => /\ Len(sent') = Len(sent) + 3
              /\ sent'[Len(sent) + 2] =
                    <<"ROTATE_JOINT", IKOf(Target, ArmType).j1, IKOf(Target, ArmType).j2>>
              /\ ArmType' = ArmType
              /\ ArmType = IF pose \in {"R", "r"} THEN RIGHT_ARM_SOLUTION
                           ELSE LEFT_ARM_SOLUTION
      ]_vars

\* C6 witness: (0, 500) is reachable both ways, the operator answered r, and
\* the move about to be sent is the RIGHT solution.
C6_Witness ==
    /\ pc = "ik_pen" /\ Target = <<0, 500>> /\ BothValidAt(Target)
    /\ pose = "r" /\ ArmType = RIGHT_ARM_SOLUTION
    /\ <<J1, J2>> = Angles2(Target, RIGHT_ARM_SOLUTION)
    /\ J1 # IKOf(Target, LEFT_ARM_SOLUTION).j1

\* C7 (as claimed): whether a target is accepted does not depend on the
\* ArmType left by earlier moves: a target is turned down (the coordinate
\* prompt comes again) only if neither configuration reaches it, and is
\* taken further only if one does.
C7_OutcomeIgnoresArmType ==
    TargetRead =>
        /\ pc = "ik_in" => NoneValid(Target)
        /\ pc \in {"ik_pose", "ik_pen"} => ~NoneValid(Target)

\* C8 (as claimed): a failure of scaraIK on a target inside the reach
\* envelope, so a joint-limit failure, answers a code that is neither the
\* one of ReachTooFar (-1) nor the one of ReachTooClose (-2).
C8_JointLimitCodeDistinct ==
    IKCallDone /\ IsConfiguration(unit.arm)
      /\ ~TooFar(unit.x, unit.y) /\ ~TooClose(unit.x, unit.y)
    => /\ unit.main.ret # 0 => unit.main.ret \notin {-1, -2}
       /\ unit.part.ret # 0 => unit.part.ret \notin {-1, -2}

\* C9: when scaraFK rejects the entered angles, or scaraIK fails for both
\* configurations of the entered target, the step sends nothing, leaves
\* ArmType as it was and asks for the input again (the program goes on).
C9_FailedSolveReprompts ==
    [][ /\ pc = "fk_in" /\ <<J1', J2'>> \in Poses /\ FKOf[<<J1', J2'>>].ret # 0
           => pc' = "fk_in" /\ sent' = sent /\ ArmType' = ArmType
        /\ pc = "ik_in" /\ <<X', Y'>> \in Targets /\ NoneValid(<<X', Y'>>)
           => pc' = "ik_in" /\ sent' = sent /\ ArmType' = ArmType
      ]_vars

\* C9 witness: after an earlier move, (-500, 0) lies within reach but both
\* configurations break the joint-1 limit; the coordinate prompt is up again.
C9_Witness ==
    /\ pc = "ik_in" /\ Target = <<-500, 0>> /\ NoneValid(Target)
    /\ Len(sent) = 3

\* C10: every completed move appends to the sink exactly the pen command of
\* the operator's answer (PEN_DOWN for y/Y, otherwise PEN_UP), one
\* ROTATE_JOINT with the resolved pose, then PEN_UP; no other step sends a
\* ROTATE_JOINT; and after every step the last pen command sent is PEN_UP.
C10_MoveBatch ==
    [][ /\ pc \in {"fk_pen", "ik_pen"}
           => sent' = sent \o << IF pen' \in {"y", "Y"} THEN <<"PEN_DOWN">>
                                                      ELSE <<"PEN_UP">>,
                                 <<"ROTATE_JOINT", J1, J2>>,
                                 <<"PEN_UP">> >>
        /\ pc \notin {"fk_pen", "ik_pen"} => Rotations(sent') = Rotations(sent)
        /\ PenIsUp(sent')
      ]_vars

\* C10 witness: a session of two completed moves, the second one drawn.
C10_Witness ==
    /\ Len(sent) = 6 /\ Rotations(sent) = 2
    /\ sent[4] = <<"PEN_DOWN">> /\ IsRotate(sent[5]) /\ sent[6] = <<"PEN_UP">>
    /\ pc \in {"menu", "ik_in"}

\* C11: ArmType starts as LEFT, and a step changes it only inside
\* moveScaraIK, at the step that commits a configuration (the step that goes
\* on to the pen prompt), to the configuration whose angles are then in
\* J1, J2; initialisation, the menu with Clear Trace, Home, Exit and invalid
\* choices, moveScaraFK and promptPen with the sends leave it as it is.
C11_ArmTypeFrame ==
    /\ ArmType = LEFT_ARM_SOLUTION
    /\ [][ /\ pc \in {"init", "menu", "fk_in", "fk_pen", "ik_pen", "exit"}
              => ArmType' = ArmType
           /\ ArmType' # ArmType
              => /\ pc \in {"ik_in", "ik_pose"} /\ pc' = "ik_pen"
                 /\ IsConfiguration(ArmType')
                 /\ <<J1', J2'>> = Angles2(<<X', Y'>>, ArmType')
         ]_vars

\* C11 witness: an inverse move committed RIGHT, and a forward move made
\* after it is at its pen prompt with ArmType still RIGHT.
C11_Witness ==
    /\ pc = "fk_pen" /\ Len(sent) = 3 /\ IsRotate(sent[2])
    /\ ArmType = RIGHT_ARM_SOLUTION

\* the report printed by the step that led to the current state
ReportIK ==
    IF prog = "main" THEN ReportIKMain(error) ELSE ReportIKPart(error_left, error_right)

\* a report names the reach of the arm (too far or too close)
NamesReach(rep) == rep.names \in {"max_reach", "min_reach", "reach"}

\* C12 (as claimed): a rejected target is reported with the constraint that
\* was violated and the bound scaraIK enforces: a target beyond L1 + L2 as a
\* maximum-reach failure with L1 + L2, a target closer than Min as a
\* minimum-reach failure with Min (to the 1/50 mm of the model), a target
\* within reach that breaks a joint limit as a joint-limit failure and not
\* as a reach error; and rejected angles name the joint and its limit.
C12_FailureNamesConstraint ==
    /\ pc = "ik_in" /\ TargetRead /\ NoneValid(Target) =>
          /\ TooFar(X, Y)
                => ReportIK.names \in {"max_reach", "reach"} /\ ReportIK.max = L1 + L2
          /\ ~TooFar(X, Y) /\ TooClose(X, Y)
                => /\ ReportIK.names \in {"min_reach", "reach"}
                   /\ Abs(50 * ReportIK.min - MinReach) <= 1
          /\ ~TooFar(X, Y) /\ ~TooClose(X, Y)
                => ~NamesReach(ReportIK)
    /\ pc = "fk_in" /\ error \in {-1, -2} =>
          /\ Abs(J1) > MAX_ABS_THETA1_DEG
                => ReportFK(error) = [names |-> "joint1", limit |-> MAX_ABS_THETA1_DEG]
          /\ Abs(J1) <= MAX_ABS_THETA1_DEG
                => ReportFK(error) = [names |-> "joint2", limit |-> MAX_ABS_THETA2_DEG]

RoundTripTol == Scale \div 4

BackAt(fk, x, y) ==
    /\ fk.ret = 0 /\ fk.wrote
    /\ Abs(fk.x - x * Scale) <= RoundTripTol
    /\ Abs(fk.y - y * Scale) <= RoundTripTol

Turns(a) == {a + k * TURN_DEG : k \in -3..3}

\* a wrapped into [-180, 180] (both ends allowed)
Wrapped(a) == {w \in Turns(a) : Abs(w) <= HALF_TURN_DEG}

LimitOf(joint) == IF joint = 1 THEN MAX_ABS_THETA1_DEG ELSE MAX_ABS_THETA2_DEG

\* C15: for every raw angle of the reachable range (|j1| <= 360,
\* |j2| <= 540) the conditional corrections of scaraIK shift the angle by
\* 0, +360 or -360 in all; the closing check succeeds exactly when some
\* whole-turn shift of the raw angle is within the joint limit, which is
\* exactly when the angle wrapped into [-180, 180] is within the limit; on
\* success the angle returned is that one in-limit representative, the
\* wrapped angle; and wrapping takes at most one turn.
C15_WrapAgreement ==
    unit.fn = "correct" /\ unit.done =>
        LET limit == LimitOf(unit.joint)
            inLimit == {w \in Turns(unit.raw) : Abs(w) <= limit}
        IN  /\ unit.out - unit.raw \in {0, TURN_DEG, -TURN_DEG}
            /\ unit.ret = 0 <=> inLimit # {}
            /\ unit.ret = 0 <=> \E w \in Wrapped(unit.raw) : Abs(w) <= limit
            /\ unit.ret = 0 => inLimit = {unit.out} /\ unit.out \in Wrapped(unit.raw)
            /\ unit.ret # 0 => unit.ret = -1
            /\ \E w \in Wrapped(unit.raw) : w - unit.raw \in {0, TURN_DEG, -TURN_DEG}

\* C15 witness: a raw j2 of -214 degrees was shifted up by one turn and
\* passed the check at 146 degrees.
C15_Witness ==
    /\ unit.fn = "correct" /\ unit.done
    /\ unit.joint = 2 /\ unit.raw = -21400
    /\ unit.out = 14600 /\ unit.ret = 0

\* C16 (as claimed): for every target and every arm argument a caller
\* passes (LEFT_ARM_SOLUTION, RIGHT_ARM_SOLUTION, and the -1 that -ArmType
\* gives when ArmType is RIGHT) scaraIK of main.cpp and scaraIK of part_000
\* return the same status and write the same angles.
C16_VariantsAgree ==
    IKCallDone => unit.main = unit.part

Ends(log) == {i \in 1..Len(log) : log[i] = <<"END">>}
InsideMove == {"fk_in", "fk_pen", "ik_in", "ik_pose", "ik_pen"}

\* C17: END is sent at most once and only by the Exit choice of the menu,
\* which ends the program: once END is in the sink it is the last command
\* and the program has ended, so nothing follows it; when Initialize fails
\* the program ends with nothing sent; an ended program takes no further
\* step; Clear Trace, Home and an invalid choice leave the program at the
\* menu, choices 1 and 2 enter a move, and a move of the menu program leads
\* nowhere but back to the menu.
C17_ExitSendsEndLast ==
    /\ [](/\ Cardinality(Ends(sent)) <= 1
          /\ Ends(sent) # {} => sent[Len(sent)] = <<"END">> /\ pc = "exit" /\ prog = "part"
          /\ pc = "exit" => sent = <<>> \/ sent[Len(sent)] = <<"END">>)
    /\ [][ /\ pc = "init" => pc' \in {"exit", "menu", "ik_in"} /\ sent' = <<>>
           /\ pc' = "exit" /\ pc = "menu" => sent' = Append(sent, <<"END">>)
           /\ pc' = "exit" => pc \in {"init", "menu"}
           /\ pc = "exit" => UNCHANGED vars
           /\ pc = "menu" /\ pc' = "menu"
                 => sent' \in {sent, Append(sent, <<"CLEAR_TRACE">>), Append(sent, <<"HOME">>)}
           /\ pc = "menu" /\ pc' # "menu"
                 => pc' \in {"fk_in", "ik_in", "exit"} /\ (pc' # "exit" => sent' = sent)
           /\ pc \in InsideMove /\ prog = "part" => pc' \in InsideMove \cup {"menu"}
           /\ pc \in InsideMove /\ pc' = "menu" => Len(sent') = Len(sent) + 3
         ]_vars

\* C17 witness: a session of the menu program that made one move, chose
\* Exit, and has ended with END as its fourth and last command.
C17_Witness ==
    /\ prog = "part" /\ pc = "exit"
    /\ Len(sent) = 4 /\ Rotations(sent) = 1
    /\ sent[4] = <<"END">>

=============================================================================
